---- MODULE Spec2Model ----
(***************************************************************************)
(* devpulse-client: the in-memory EventStore, the ActivityStateTask state  *)
(* machine, the ActivityTracker main loop and its batch sender.            *)
(*                                                                         *)
(* Optional values of the Python code (bool | None, float | None) are      *)
(* written as sequences of length at most one: None is <<>> and a present  *)
(* value v is <<v>>.                                                       *)
(***************************************************************************)
EXTENDS Integers, Sequences, FiniteSets, TLC

\* ---------------------------------------------------------------- bounds
\* number of ActivityStateTask.tick calls explored by SpecActivity
MaxTicks == 4
\* largest value of the (integer seconds) clock handed to tick(now)
MaxTime == 1
\* largest clock value (seconds since start) sampled by the main loop
MaxClock == 10
\* the main loop starts no further iteration after this many pushes
MaxPushed == 4
\* number of events pushed by the thread running beside the main loop
MaxOther == 1
\* the direct ticks of a periodic task take their `now` from 0..MaxTaskTime
MaxTaskTime == 9
\* number of signals delivered to the process
MaxSignals == 2
\* challenge coroutines a CaptchaTask starts in one run
MaxChallenges == 2

\* ------------------------------------------------------ program constants
\* TrackerSettings.IDLE_THRESHOLD
IDLE_THRESHOLD == 10
\* TrackerSettings.HEARTBEAT_EVERY
HEARTBEAT_EVERY == 10
\* TrackerSettings.WINDOW_EVENT_INTERVAL
WINDOW_EVENT_INTERVAL == 0
\* TrackerSettings.SCREENSHOT_INTERVAL
SCREENSHOT_INTERVAL == 86400
\* ActivityTracker.SEND_INTERVAL
SEND_INTERVAL == 5
\* a supported set spelled with the values of sys.platform
SUPPORTED_SYSTEMS_sysPlatform == {"win32", "darwin", "linux"}

\* ActivityTracker.SUPPORTED_SYSTEMS
SUPPORTED_SYSTEMS == {"windows", "darwin", "linux"}

\* ActivityEventType members used by the state machine and the loop
STARTED == "System Started"
STOPPED == "System Stopped"
SCREEN_LOCKED == "Screen Locked"
SCREEN_UNLOCKED == "Screen Unlocked"
ACTIVE == "User Active"
INACTIVE == "User Inactive"

None == <<>>
Some(v) == <<v>>

\* ------------------------------------------------------------------ state
VARIABLES
    system,     \* tracker_settings.system (sys.platform)
    pc,         \* where ActivityTracker.run is
    raised,     \* the exception that ended run's loop, if any
    events,     \* EventStore._events, the process-wide deque
    nPushed,    \* history: number of EventStore._push calls so far
    nOther,     \* history: pushes made by the other thread
    now,        \* run's local `now` (the value handed to tick)
    last_send,  \* run's local last_send
    hb_last,    \* HeartbeatTask._last : float | None
    win,        \* WindowTrackerTask: _last_title, _window_start
    shot,       \* ScreenshotTask: _last, and the history count of captures
    interval,   \* the `interval` field of each periodic task
    _locked,    \* ActivityStateTask._locked : bool | None
    _idle,      \* ActivityStateTask._idle   : bool | None
    batch,      \* send_events' local event_request.events
    cur,        \* history: the send attempt in progress
    sent,       \* history: what has been posted and acknowledged so far
    lastSend,   \* history: the last completed send attempt
    history,    \* history: the probe samples of every tick so far
    lastTick,   \* history: pre-state, samples and pushes of the last tick
    loopLog,    \* history: the iterations and send_events calls of run,
                \* the title changes seen and WindowEvents pushed in it
    handler,    \* SignalHandler: signal_received, received_signal,
                \* _cleanup_fns, and the history of what it ran
    captcha     \* CaptchaTask: its fields, its asyncio loop and task, and
                \* the challenge coroutines started so far

storeVars == <<events, nPushed>>
taskVars == <<hb_last, win, shot, _locked, _idle, lastTick>>
configVars == <<system, interval>>
unwiredVars == <<handler, captcha>>
sendVars == <<batch, cur, sent, lastSend>>
loopVars == <<system, pc, raised, now, last_send, nOther>>
vars == <<system, pc, raised, events, nPushed, nOther, now, last_send,
          hb_last, win, shot, interval, _locked, _idle, batch, cur, sent,
          lastSend, history, lastTick, loopLog, handler, captcha>>

\* --------------------------------------------------------- the probes
\* the values of tracker_settings.system for which each probe dispatches
\* to a platform implementation; any other value takes the fallback
\* IdleDetector.seconds_idle: the cases of its match
SecondsIdleSystems == {"win32", "darwin", "linux"}
\* ScreenLockDetector.is_locked: its chain of if sys_platform == ...
IsLockedSystems == {"win32", "darwin", "linux"}
\* WindowTitleProvider.current_title: the cases of its match
CurrentTitleSystems == {"win32", "darwin", "linux"}

\* ScreenLockDetector.is_locked returns a bool on every platform
IsLockedResults == BOOLEAN

\* IdleDetector.seconds_idle: a number of seconds, -1 when undeterminable,
\* and on darwin None when the ioreg output has no HIDIdleTime line
SecondsIdleResults(sys) ==
    IF sys \notin SecondsIdleSystems THEN {Some(-1)}
    ELSE {Some(-1), Some(0), Some(10), Some(15)}
            \cup (IF sys = "darwin" THEN {None} ELSE {})

\* ------------------------------------------------------------ EventStore
\* _ActivityEvent as stored by _push (asdict); uid is a history field that
\* tells apart two events with equal content
ActivityEvent(label, ts, uid) ==
    [kind |-> "activity", event |-> label, timestamp |-> ts, uid |-> uid]

\* _HeartbeatEvent as stored by _push
HeartbeatEvent(ts, uid) ==
    [kind |-> "heartbeat", timestamp |-> ts, uid |-> uid]

\* _WindowEvent as built by log_window_event when start_time and end_time
\* are both given: duration is their difference and timestamp the start
WindowEvent(title, start_time, end_time, uid) ==
    [kind |-> "window", timestamp |-> start_time, window_title |-> title,
     duration |-> end_time - start_time,
     start_time |-> start_time, end_time |-> end_time, uid |-> uid]

\* an event pushed by the thread beside the main loop
\* (CaptchaTask._log_captcha_event, run on the captcha thread)
CaptchaEvent(uid) ==
    [kind |-> "captcha", event |-> "captcha_created", uid |-> uid]

\* a push at the head of the deque (appendleft)
Push_front(q, e) == <<e>> \o q

\* a push that writes over the newest slot, as a lost update would
Push_overwriteLast(q, e) ==
    IF q = <<>> THEN <<e>> ELSE [q EXCEPT ![Len(q)] = e]

\* EventStore._push: deque.append
Push(q, e) == Append(q, e)

\* a snapshot that misses the newest event
GetAllEvents_dropLast(q) ==
    IF q = <<>> THEN q ELSE SubSeq(q, 1, Len(q) - 1)

\* EventStore.get_all_events: list(EventStore._events), a copy
GetAllEvents(q) == q

\* clear that removes only the oldest event
Clear_popLeft(q) == IF q = <<>> THEN q ELSE Tail(q)

\* EventStore.clear: deque.clear
Clear(q) == <<>>

\* the uid fields of a sequence of events
Uids(q) == {q[k].uid : k \in 1..Len(q)}

\* the events of q that are neither in q2 nor in the posted batch b
Unsent(q, q2, b) ==
    {q[k] : k \in {j \in 1..Len(q) : /\ q[j].uid \notin Uids(q2)
                                      /\ q[j].uid \notin Uids(b)}}

\* EventStore.log_activity called once per label of `labels`, in order
RECURSIVE LogActivities(_, _, _, _)
LogActivities(q, labels, ts, n) ==
    IF labels = <<>> THEN q
    ELSE LogActivities(Append(q, ActivityEvent(Head(labels), ts, n + 1)),
                       Tail(labels), ts, n + 1)

\* ----------------------------------------------------- ActivityStateTask
\* The running result of a tick: the task's fields, the labels pushed so
\* far, the number of seconds_idle calls made, and whether the tick raised.
TickStart(l, i) ==
    [locked |-> l, idle |-> i, pushed |-> <<>>, nreads |-> 0, raised |-> FALSE]

\* the "undeterminable" sentinel taken for a long idle time
IsIdle_unknownIsIdle(idle_seconds) ==
    idle_seconds[1] >= IDLE_THRESHOLD \/ idle_seconds[1] < 0

\* the comparison made strict
IsIdle_strict(idle_seconds) == idle_seconds[1] > IDLE_THRESHOLD

\* idle_seconds >= tracker_settings.IDLE_THRESHOLD; Python raises TypeError
\* when idle_seconds is None
IsIdle(idle_seconds) == idle_seconds[1] >= IDLE_THRESHOLD

\* lock edge that logs but does not remember the lock
OnLockEdge_notStored(s) ==
    [s EXCEPT !.pushed = Append(@, SCREEN_LOCKED), !.idle = Some(FALSE)]

\* lock edge with the idle flag left as it was
OnLockEdge_keepIdle(s) ==
    [s EXCEPT !.pushed = Append(@, SCREEN_LOCKED), !.locked = Some(TRUE)]

\* lines 80-84: the screen went from unlocked to locked
OnLockEdge(s) ==
    [s EXCEPT !.pushed = Append(@, SCREEN_LOCKED),
              !.locked = Some(TRUE), !.idle = Some(FALSE)]

\* unlock edge without the unconditional Active
OnUnlockEdge_noActive(s) ==
    [s EXCEPT !.pushed = Append(@, SCREEN_UNLOCKED), !.locked = Some(FALSE)]

\* lines 85-92: the screen went from locked to unlocked; _idle is not
\* assigned here
OnUnlockEdge(s) ==
    [s EXCEPT !.pushed = @ \o <<SCREEN_UNLOCKED, ACTIVE>>,
              !.locked = Some(FALSE)]

\* lines 62-92: the lock part of tick
LockPhase(s, locked, reads) ==
    IF s.locked = None THEN
        IF locked THEN
            [s EXCEPT !.pushed = Append(@, SCREEN_LOCKED),
                      !.locked = Some(TRUE), !.idle = Some(FALSE)]
        ELSE
            LET idle_seconds == reads[s.nreads + 1] IN
            IF idle_seconds = None THEN
                [s EXCEPT !.nreads = @ + 1, !.raised = TRUE]
            ELSE
                [s EXCEPT !.nreads = @ + 1,
                          !.pushed = Append(@, IF IsIdle(idle_seconds)
                                               THEN INACTIVE ELSE ACTIVE),
                          !.locked = Some(FALSE),
                          !.idle = Some(IsIdle(idle_seconds))]
    ELSE
        IF locked /\ ~s.locked[1] THEN OnLockEdge(s)
        ELSE IF ~locked /\ s.locked[1] THEN OnUnlockEdge(s)
        ELSE s

\* idle check that is skipped in the tick that unlocked
IdleEdge_notAfterUnlock(s, is_idle) ==
    IF s.idle = None
       \/ \E k \in 1..Len(s.pushed) : s.pushed[k] = SCREEN_UNLOCKED THEN s
    ELSE IF is_idle /\ ~s.idle[1] THEN
        [s EXCEPT !.pushed = Append(@, INACTIVE), !.idle = Some(TRUE)]
    ELSE IF ~is_idle /\ s.idle[1] THEN
        [s EXCEPT !.pushed = Append(@, ACTIVE), !.idle = Some(FALSE)]
    ELSE s

\* idle check that logs the sampled state instead of its change
IdleEdge_everySample(s, is_idle) ==
    IF s.idle = None THEN s
    ELSE IF is_idle THEN
        [s EXCEPT !.pushed = Append(@, INACTIVE), !.idle = Some(TRUE)]
    ELSE IF s.idle[1] THEN
        [s EXCEPT !.pushed = Append(@, ACTIVE), !.idle = Some(FALSE)]
    ELSE s

\* idle check whose idle -> active edge logs nothing
IdleEdge_silentActive(s, is_idle) ==
    IF s.idle = None THEN s
    ELSE IF is_idle /\ ~s.idle[1] THEN
        [s EXCEPT !.pushed = Append(@, INACTIVE), !.idle = Some(TRUE)]
    ELSE IF ~is_idle /\ s.idle[1] THEN
        [s EXCEPT !.idle = Some(FALSE)]
    ELSE s

\* lines 98-108: compare the sample with the stored idle flag
IdleEdge(s, is_idle) ==
    IF s.idle = None THEN s
    ELSE IF is_idle /\ ~s.idle[1] THEN
        [s EXCEPT !.pushed = Append(@, INACTIVE), !.idle = Some(TRUE)]
    ELSE IF ~is_idle /\ s.idle[1] THEN
        [s EXCEPT !.pushed = Append(@, ACTIVE), !.idle = Some(FALSE)]
    ELSE s

\* lines 94-108: the idle part of tick, run whenever the sample is unlocked
IdlePhase(s, locked, reads) ==
    IF s.raised \/ locked THEN s
    ELSE
        LET idle_seconds == reads[s.nreads + 1]
            read == [s EXCEPT !.nreads = @ + 1]
        IN  IF idle_seconds = None THEN [read EXCEPT !.raised = TRUE]
            ELSE IdleEdge(read, IsIdle(idle_seconds))

\* ActivityStateTask.tick: `locked` is the is_locked sample and `reads`
\* the results of the first and the second seconds_idle call, if made
tick(l, i, locked, reads) ==
    IdlePhase(LockPhase(TickStart(l, i), locked, reads), locked, reads)

\* One call of ActivityStateTask.tick(t) on task fields (l, i) and store
\* (q, n): the new fields and store, and the record of the tick
ActivityTick(l, i, q, n, t, locked, reads) ==
    LET res == tick(l, i, locked, reads) IN
    [locked |-> res.locked,
     idle |-> res.idle,
     events |-> LogActivities(q, res.pushed, t, n),
     nPushed |-> n + Len(res.pushed),
     raised |-> res.raised,
     record |-> [pre_locked |-> l, pre_idle |-> i,
                 locked |-> locked,
                 reads |-> SubSeq(reads, 1, res.nreads),
                 pushed |-> res.pushed,
                 raised |-> res.raised,
                 ret |-> <<res.locked, res.idle>>]]

\* ------------------------------------------------------- HeartbeatTask
\* the gate on the distance of the two times, whichever is later
IntervalElapsed_eitherWay(every, last, t) ==
    \/ last = None
    \/ t - last[1] >= every
    \/ last[1] - t >= every

\* the gate with > in place of >=
IntervalElapsed_strict(every, last, t) ==
    last = None \/ t - last[1] > every

\* the gate with interval 0 read as "disabled"
IntervalElapsed_zeroDisabled(every, last, t) ==
    last = None \/ (every > 0 /\ t - last[1] >= every)

\* the gate of HeartbeatTask.tick and ScreenshotTask.tick:
\* `self._last is None or now - self._last >= self.interval`
IntervalElapsed(every, last, t) ==
    last = None \/ t - last[1] >= every

\* HeartbeatTask.tick(t) with interval `every` on _last = last and
\* store (q, n)
HeartbeatTick(every, last, q, n, t) ==
    IF IntervalElapsed(every, last, t)
    THEN [_last |-> Some(t), events |-> Push(q, HeartbeatEvent(t, n + 1)),
          nPushed |-> n + 1]
    ELSE [_last |-> last, events |-> q, nPushed |-> n]

\* ------------------------------------------------------ ScreenshotTask
\* ScreenshotCapturer.capture_all_monitors: the images are saved (by mss
\* or by the platform fallback), or the fallback raises
CaptureResults == {"saved", "RuntimeError"}

\* ScreenshotTask.tick(t) with interval `every` on s = (_last, captures);
\* captures counts the calls of capturer.capture_all_monitors. _last is
\* set before the call, and tick has no handler: what the capture raises
\* leaves tick
ScreenshotTick(every, s, t, outcome) ==
    IF IntervalElapsed(every, s._last, t)
    THEN [shot |-> [_last |-> Some(t), captures |-> s.captures + 1],
          raises |-> outcome # "saved"]
    ELSE [shot |-> s, raises |-> FALSE]

\* --------------------------------------------------- WindowTrackerTask
\* WindowTitleProvider.current_title: a title, or the sentinel "N/A"
CurrentTitleResults == {"N/A", "editor"}

\* the dwell test with > in place of >=
ShouldLogPreviousWindow_strict(w, every, t) ==
    /\ w._last_title # None
    /\ w._window_start # None
    /\ t - w._window_start[1] > every

\* the previous window logged after any dwell
ShouldLogPreviousWindow_anyDwell(w, every, t) ==
    /\ w._last_title # None
    /\ w._window_start # None

\* WindowTrackerTask._should_log_previous_window, interval = every
ShouldLogPreviousWindow(w, every, t) ==
    /\ w._last_title # None
    /\ w._window_start # None
    /\ t - w._window_start[1] >= every

\* a first tick that logs the window found at startup as an event of its
\* own
LogPreviousWindowIfNeeded_alsoFirst(w, every, q, n, t) ==
    IF w._last_title = None
    THEN [events |-> Push(q, WindowEvent("N/A", t, t, n + 1)),
          nPushed |-> n + 1]
    ELSE IF ShouldLogPreviousWindow(w, every, t)
    THEN [events |-> Push(q, WindowEvent(w._last_title[1],
                                   w._window_start[1], t, n + 1)),
          nPushed |-> n + 1]
    ELSE [events |-> q, nPushed |-> n]

\* WindowTrackerTask._log_previous_window_if_needed and _log_window_event:
\* the event is built from the start and from start + duration
LogPreviousWindowIfNeeded(w, every, q, n, t) ==
    IF ShouldLogPreviousWindow(w, every, t)
    THEN LET duration == t - w._window_start[1]
         IN  [events |-> Push(q, WindowEvent(w._last_title[1],
                                   w._window_start[1],
                                   w._window_start[1] + duration, n + 1)),
              nPushed |-> n + 1]
    ELSE [events |-> q, nPushed |-> n]

\* a title seen again goes on from the start already stored
StartTrackingNewWindow_keepStart(w, window_title, t) ==
    [_last_title |-> Some(window_title),
     _window_start |-> IF w._window_start = None THEN Some(t)
                       ELSE w._window_start]

\* WindowTrackerTask._start_tracking_new_window
StartTrackingNewWindow(w, window_title, t) ==
    [_last_title |-> Some(window_title), _window_start |-> Some(t)]

\* every tick taken for a change of window
HasWindowChanged_always(w, current_title) == TRUE

\* WindowTrackerTask._has_window_changed
HasWindowChanged(w, current_title) == Some(current_title) # w._last_title

\* WindowTrackerTask.tick(t) on fields w and store (q, n), the probe
\* returning current_title
WindowTick(w, every, q, n, t, current_title) ==
    IF HasWindowChanged(w, current_title) THEN
        LET logged == LogPreviousWindowIfNeeded(w, every, q, n, t)
        IN  [win |-> StartTrackingNewWindow(w, current_title, t),
             events |-> logged.events,
             nPushed |-> logged.nPushed]
    ELSE [win |-> w, events |-> q, nPushed |-> n]

\* ---------------------------------------------------------- CaptchaTask
\* the expressions _captcha_challenge_coroutine may generate (two of them)
Expressions == {"1 + 2", "7 - 3"}

\* what _show_math_dialog_async and the comparison give: None (dialog
\* cancelled, closed or not an integer), the correct answer, a wrong one
Answers == {"cancelled", "correct", "wrong"}

\* _CaptchaCreatedEvent as pushed by EventStore.log_captcha_created
CaptchaCreatedEvent(expression, uid) ==
    [kind |-> "captcha", event |-> "captcha_created",
     expression |-> expression, uid |-> uid]

\* _CaptchaAnsweredEvent as pushed by EventStore.log_captcha_answered
CaptchaAnsweredEvent(expression, is_correct, uid) ==
    [kind |-> "captcha", event |-> "captcha_answered",
     expression |-> expression, is_correct |-> is_correct, uid |-> uid]

\* CaptchaTask.__init__; `challenges` is the list of the coroutines started
\* so far, each with where it is (`at`), how it was started (`by`: its own
\* thread and loop, or a task on the loop of challenge `on`)
NewCaptchaTask(every) ==
    [interval |-> every, _last_challenge |-> None, _last_expr |-> None,
     _last_answered |-> TRUE, _loop |-> None, _task |-> None,
     challenges |-> <<>>]

\* no CaptchaTask is constructed by the package: nothing calls
\* CaptchaTask(...)
NoCaptchaTask == NewCaptchaTask(10)

\* CaptchaTask._run_captcha_challenge_async: a new thread with its own
\* loop when _loop is None, else a task on the existing loop unless the
\* last task is still pending
RunCaptchaChallengeAsync(c) ==
    IF c._loop = None
    THEN [c EXCEPT !.challenges =
             Append(@, [at |-> "scheduled", by |-> "thread", on |-> 0,
                        expr |-> None])]
    ELSE IF c._task = None \/ c.challenges[c._task[1]].at = "done"
    THEN [c EXCEPT !.challenges =
                      Append(@, [at |-> "scheduled", by |-> "task",
                                 on |-> c._loop[1], expr |-> None]),
                   !._task = Some(Len(c.challenges) + 1)]
    ELSE c

\* CaptchaTask.tick(t) on fields c and store (q, n): when the interval has
\* elapsed and the last challenge is unanswered, line 46 looks up
\* EventStore.log_captcha_not_answered, which EventStore does not define
\* (it has log_captcha_created and log_captcha_answered only), so the
\* tick raises AttributeError before line 48
CaptchaTick(c, q, n, t) ==
    IF c._last_challenge = None \/ t - c._last_challenge[1] >= c.interval
    THEN IF c._last_expr # None /\ ~c._last_answered
         THEN [captcha |-> c, events |-> q, nPushed |-> n,
               raises |-> TRUE]
         ELSE [captcha |-> RunCaptchaChallengeAsync(
                              [c EXCEPT !._last_challenge = Some(t)]),
               events |-> q, nPushed |-> n, raises |-> FALSE]
    ELSE [captcha |-> c, events |-> q, nPushed |-> n, raises |-> FALSE]

\* _captcha_challenge_coroutine lines 87-97 of challenge k (and line 64 for
\* a thread): set _loop, generate expr, store it as the last expression,
\* unanswered, and show the dialog
BeginChallenge(c, k, expr) ==
    [c EXCEPT !._loop = IF c.challenges[k].by = "thread" THEN Some(k) ELSE @,
              !._last_expr = Some(expr),
              !._last_answered = FALSE,
              !.challenges[k].at = "dialog",
              !.challenges[k].expr = Some(expr)]

\* CaptchaTask._log_captcha_event: the created and the answered event
LogCaptchaEvent(q, n, expression, is_correct) ==
    Push(Push(q, CaptchaCreatedEvent(expression, n + 1)),
         CaptchaAnsweredEvent(expression, is_correct, n + 2))

\* the end of challenge k: the coroutine is done; a thread then closes
\* its loop and sets _loop = None (lines 67-69), which ends the tasks
\* still pending on that loop
EndChallenge(c, k) ==
    [c EXCEPT !._loop = IF c.challenges[k].by = "thread" THEN None ELSE @,
              !.challenges =
                 [j \in 1..Len(@) |->
                    IF j = k THEN [@[j] EXCEPT !.at = "done"]
                    ELSE IF /\ c.challenges[k].by = "thread"
                            /\ @[j].by = "task" /\ @[j].on = k
                            /\ @[j].at # "done"
                    THEN [@[j] EXCEPT !.at = "dead"]
                    ELSE @[j]]]

\* _captcha_challenge_coroutine lines 97-116 of challenge k once the
\* dialog returned `answer`: nothing on None; else the two events and
\* _last_answered = True (a wrong answer then raises AttributeError at
\* line 111, caught at line 114: the coroutine ends without asking again)
AnswerChallenge(c, q, n, k, answer) ==
    IF answer = "cancelled"
    THEN [captcha |-> EndChallenge(c, k), events |-> q, nPushed |-> n]
    ELSE [captcha |-> EndChallenge([c EXCEPT !._last_answered = TRUE], k),
          events |-> LogCaptchaEvent(q, n, c.challenges[k].expr[1],
                                     answer = "correct"),
          nPushed |-> n + 2]

\* ------------------------------------------------- ActivityTracker.run
\* the outcomes of client.post: a status code, or None for an exception
\* raised by the transport (timeout, connection error)
Responses == {Some(200), Some(500), None}

\* send_events that empties the store whatever the server answered
SendEventsResult_alwaysClear(q, response) ==
    [events |-> Clear(q), raises |-> FALSE]

\* send_events lines 73-83, once client.post has produced `response`:
\* clear on 200, log on any other status, and log in `except Exception`
SendEventsResult(q, response) ==
    [events |-> IF response = Some(200) THEN Clear(q) ELSE q,
     raises |-> FALSE]

\* the places of run's loop: line 48, the three ticks of line 50, the
\* test of line 51, and send_events before and during client.post
LoopPcs == {"loop", "hb", "win", "act", "send", "post", "resp"}

\* a task list that ticks the state machine first
Tasks_activityFirst == <<"act", "hb", "win">>

\* ActivityTracker.tasks, in the order `for t in self.tasks` visits them:
\* HeartbeatTask, WindowTrackerTask, ActivityStateTask
Tasks == <<"hb", "win", "act">>

\* where run goes after the tick of task p: the next task of the list, or
\* the send test of line 51 after the last one
AfterTick(p) ==
    LET k == CHOOSE j \in 1..Len(Tasks) : Tasks[j] = p
    IN  IF k < Len(Tasks) THEN Tasks[k + 1] ELSE "send"

\* history: task p was ticked with `now` = t
LogTick(log, p, t) ==
    [log EXCEPT !.ticked = Append(@, [task |-> p, now |-> t])]

\* a loop that moves last_send only when the server acknowledged
NextLastSend_onSuccess(ls, t, response) ==
    IF response = Some(200) THEN t ELSE ls

\* run line 53: last_send = now, whatever send_events did
NextLastSend(ls, t, response) == t

\* the values of sys.platform
Platforms == {"linux", "darwin", "win32"}

\* freshly constructed tasks, an empty store, run not yet called
Fresh ==
    /\ pc = "start"
    /\ raised = None
    /\ events = <<>>
    /\ nPushed = 0
    /\ nOther = 0
    /\ now = 0
    /\ last_send = 0
    /\ hb_last = None
    /\ win = [_last_title |-> None, _window_start |-> None]
    /\ shot = [_last |-> None, captures |-> 0]
    /\ _locked = None
    /\ _idle = None
    /\ batch = <<>>
    /\ cur = [before |-> <<>>, snapMark |-> 0, interleaved |-> FALSE]
    /\ sent = [transmitted |-> {}, acked |-> {}, ackMark |-> 0,
               ackSnap |-> 0, failed |-> {}, lost |-> {}]
    /\ lastSend = None
    /\ history = <<>>
    /\ lastTick = None
    /\ loopLog = [mark |-> 0, ticked |-> <<>>, attempts |-> <<>>,
                  empty |-> 0, changes |-> 0, windows |-> 0]

\* SignalHandler.__init__ with the cleanup functions fns; a cleanup function
\* is given by what a call of it does, "ok" or "raises". `ran` (the indices
\* of the functions called so far), `delivered` and `during` (where run was
\* at the first signal) are history fields
NewHandler(fns) ==
    [installed |-> TRUE, signal_received |-> FALSE, received_signal |-> None,
     _cleanup_fns |-> fns, ran |-> <<>>, delivered |-> 0, during |-> None]

\* no SignalHandler is constructed: nothing in the package calls
\* SignalHandler(...)
NoHandler ==
    [NewHandler(<<>>) EXCEPT !.installed = FALSE]

\* ActivityTracker.__init__: the tasks get their intervals from the settings
Init ==
    /\ system \in Platforms
    /\ interval = [heartbeat |-> HEARTBEAT_EVERY,
                   window |-> WINDOW_EVENT_INTERVAL,
                   screenshot |-> SCREENSHOT_INTERVAL]
    /\ handler = NoHandler
    /\ captcha = NoCaptchaTask
    /\ Fresh

\* run lines 34-36: unsupported platform, return at once
RunUnsupported ==
    /\ pc = "start"
    /\ system \notin SUPPORTED_SYSTEMS
    /\ pc' = "returned"
    /\ UNCHANGED configVars /\ UNCHANGED unwiredVars /\ UNCHANGED loopLog
    /\ UNCHANGED <<raised, now, last_send, nOther, history>>
    /\ UNCHANGED storeVars /\ UNCHANGED taskVars /\ UNCHANGED sendVars

\* run lines 38-42: log Started, last_send = start_time
RunStart ==
    /\ pc = "start"
    /\ system \in SUPPORTED_SYSTEMS
    /\ events' = Push(events, ActivityEvent(STARTED, now, nPushed + 1))
    /\ nPushed' = nPushed + 1
    /\ last_send' = now
    /\ pc' = "loop"
    /\ UNCHANGED configVars /\ UNCHANGED unwiredVars /\ UNCHANGED loopLog
    /\ UNCHANGED <<raised, now, nOther, history>>
    /\ UNCHANGED taskVars /\ UNCHANGED sendVars

\* an `except Exception` in place of `finally`: KeyboardInterrupt passes
Finally_exceptException(q, n, exc) ==
    /\ events' = IF exc = "KeyboardInterrupt" THEN q
                 ELSE Push(q, ActivityEvent(STOPPED, now', n + 1))
    /\ nPushed' = IF exc = "KeyboardInterrupt" THEN n ELSE n + 1
    /\ raised' = Some(exc)
    /\ pc' = "stopped"

\* the `finally` of run, lines 56-60: log Stopped while exception `exc`
\* leaves the loop; q, n is the store at that moment
Finally(q, n, exc) ==
    /\ events' = Push(q, ActivityEvent(STOPPED, now', n + 1))
    /\ nPushed' = n + 1
    /\ raised' = Some(exc)
    /\ pc' = "stopped"

\* line 54 and line 48: sleep, then now = time.time()
LoopNow ==
    /\ pc = "loop"
    /\ nPushed < MaxPushed
    /\ \E t \in {now, now + SEND_INTERVAL} : t <= MaxClock /\ now' = t
    /\ pc' = Tasks[1]
    /\ loopLog' = [loopLog EXCEPT !.mark = nPushed, !.ticked = <<>>]
    /\ UNCHANGED configVars /\ UNCHANGED unwiredVars
    /\ UNCHANGED <<raised, last_send, nOther, history>>
    /\ UNCHANGED storeVars /\ UNCHANGED taskVars /\ UNCHANGED sendVars

\* line 50, first task: HeartbeatTask.tick(now)
TickHeartbeat ==
    /\ pc = "hb"
    /\ LET res == HeartbeatTick(interval.heartbeat, hb_last, events, nPushed,
                             now)
       IN  /\ hb_last' = res._last
           /\ events' = res.events
           /\ nPushed' = res.nPushed
    /\ pc' = AfterTick("hb")
    /\ loopLog' = LogTick(loopLog, "hb", now)
    /\ UNCHANGED configVars /\ UNCHANGED unwiredVars
    /\ UNCHANGED <<raised, now, last_send, nOther, history>>
    /\ UNCHANGED <<win, shot, _locked, _idle, lastTick>> /\ UNCHANGED sendVars

\* line 50, second task: WindowTrackerTask.tick(now)
TickWindow ==
    /\ pc = "win"
    /\ \E title \in CurrentTitleResults :
          LET res == WindowTick(win, interval.window, events, nPushed, now,
                               title)
          IN  /\ win' = res.win
              /\ events' = res.events
              /\ nPushed' = res.nPushed
              /\ loopLog' = [LogTick(loopLog, "win", now) EXCEPT
                    !.changes = @ + IF Some(title) # win._last_title
                                    THEN 1 ELSE 0,
                    !.windows = @ + (res.nPushed - nPushed)]
    /\ pc' = AfterTick("win")
    /\ UNCHANGED configVars /\ UNCHANGED unwiredVars
    /\ UNCHANGED <<raised, now, last_send, nOther, history>>
    /\ UNCHANGED <<hb_last, shot, _locked, _idle, lastTick>>
    /\ UNCHANGED sendVars

\* line 50, third task: ActivityStateTask.tick(now); a TypeError raised by
\* the tick leaves the loop through `finally`
TickActivity ==
    /\ pc = "act"
    /\ \E locked \in IsLockedResults,
          r1 \in SecondsIdleResults(system),
          r2 \in SecondsIdleResults(system) :
          LET res == ActivityTick(_locked, _idle, events, nPushed, now,
                                  locked, <<r1, r2>>)
          IN  /\ _locked' = res.locked
              /\ _idle' = res.idle
              /\ now' = now
              /\ IF res.raised
                 THEN Finally(res.events, res.nPushed, "TypeError")
                 ELSE /\ events' = res.events
                      /\ nPushed' = res.nPushed
                      /\ raised' = raised
                      /\ pc' = AfterTick("act")
    /\ loopLog' = LogTick(loopLog, "act", now)
    /\ UNCHANGED configVars /\ UNCHANGED unwiredVars
    /\ UNCHANGED <<last_send, nOther, history, hb_last, win, shot, lastTick>>
    /\ UNCHANGED sendVars

\* line 51 false: no send in this iteration
SkipSend ==
    /\ pc = "send"
    /\ ~(now - last_send >= SEND_INTERVAL)
    /\ pc' = "loop"
    /\ UNCHANGED configVars /\ UNCHANGED unwiredVars /\ UNCHANGED loopLog
    /\ UNCHANGED <<raised, now, last_send, nOther, history>>
    /\ UNCHANGED storeVars /\ UNCHANGED taskVars /\ UNCHANGED sendVars

\* send_events without the `if not events: return` of lines 64-65
SendSnapshot_noEmptyCheck ==
    /\ pc = "send"
    /\ now - last_send >= SEND_INTERVAL
    /\ batch' = GetAllEvents(events)
    /\ pc' = "post"
    /\ cur' = [before |-> events, snapMark |-> nPushed,
               interleaved |-> FALSE]
    /\ loopLog' = [loopLog EXCEPT !.attempts = Append(@, now)]
    /\ UNCHANGED configVars /\ UNCHANGED unwiredVars
    /\ UNCHANGED <<raised, now, last_send, nOther, history, sent, lastSend>>
    /\ UNCHANGED storeVars /\ UNCHANGED taskVars

\* line 51 true, send_events lines 63-65: take the snapshot; with an empty
\* snapshot send_events returns and line 53 sets last_send
SendSnapshot ==
    /\ pc = "send"
    /\ now - last_send >= SEND_INTERVAL
    /\ LET snapshot == GetAllEvents(events) IN
       IF Len(snapshot) = 0
       THEN /\ batch' = <<>>
            /\ last_send' = NextLastSend(last_send, now, None)
            /\ pc' = "loop"
            /\ cur' = cur
            /\ loopLog' = [loopLog EXCEPT !.attempts = Append(@, now),
                                          !.empty = @ + 1]
       ELSE /\ batch' = snapshot
            /\ last_send' = last_send
            /\ pc' = "post"
            /\ cur' = [before |-> events, snapMark |-> nPushed,
                       interleaved |-> FALSE]
            /\ loopLog' = [loopLog EXCEPT !.attempts = Append(@, now)]
    /\ UNCHANGED configVars /\ UNCHANGED unwiredVars
    /\ UNCHANGED <<raised, now, nOther, history, sent, lastSend>>
    /\ UNCHANGED storeVars /\ UNCHANGED taskVars

\* send_events line 75: the request with the batch goes out
SendPost ==
    /\ pc = "post"
    /\ sent' = [sent EXCEPT !.transmitted = @ \cup Uids(batch)]
    /\ pc' = "resp"
    /\ UNCHANGED configVars /\ UNCHANGED unwiredVars /\ UNCHANGED loopLog
    /\ UNCHANGED <<raised, now, last_send, nOther, history>>
    /\ UNCHANGED <<batch, cur, lastSend>>
    /\ UNCHANGED storeVars /\ UNCHANGED taskVars

\* send_events lines 75-83 and run line 53: client.post returns or raises,
\* the store is cleared on 200, and the loop goes on with last_send = now
SendResponse ==
    /\ pc = "resp"
    /\ \E response \in Responses :
          LET res == SendEventsResult(events, response) IN
          /\ lastSend' = Some([before |-> cur.before, batch |-> batch,
                               response |-> response,
                               interleaved |-> cur.interleaved,
                               after |-> res.events,
                               raises |-> res.raises])
          /\ sent' = IF response = Some(200)
                     THEN [sent EXCEPT !.acked = @ \cup Uids(batch),
                                       !.ackMark = nPushed,
                                       !.ackSnap = cur.snapMark,
                                       !.lost = @ \cup Unsent(events,
                                                    res.events, batch)]
                     ELSE [sent EXCEPT !.failed = @ \cup Uids(batch),
                                       !.lost = @ \cup Unsent(events,
                                                    res.events, batch)]
          /\ now' = now
          /\ IF res.raises
             THEN /\ Finally(res.events, nPushed, "TransportError")
                  /\ last_send' = last_send
             ELSE /\ events' = res.events
                  /\ nPushed' = nPushed
                  /\ raised' = raised
                  /\ last_send' = NextLastSend(last_send, now, response)
                  /\ pc' = "loop"
    /\ batch' = <<>>
    /\ UNCHANGED configVars /\ UNCHANGED unwiredVars /\ UNCHANGED loopLog
    /\ UNCHANGED <<nOther, history, cur>>
    /\ UNCHANGED taskVars

\* Ctrl-C: KeyboardInterrupt is raised somewhere in the loop and leaves it
\* through `finally`
Interrupt ==
    /\ pc \in LoopPcs
    /\ now' = now
    /\ Finally(events, nPushed, "KeyboardInterrupt")
    /\ batch' = <<>>
    /\ UNCHANGED configVars /\ UNCHANGED unwiredVars /\ UNCHANGED loopLog
    /\ UNCHANGED <<last_send, nOther, history, cur, sent, lastSend>>
    /\ UNCHANGED taskVars

\* the other thread pushes an event while the main loop runs
ConcurrentPush ==
    /\ pc \in LoopPcs
    /\ nOther < MaxOther
    /\ events' = Push(events, CaptchaEvent(nPushed + 1))
    /\ nPushed' = nPushed + 1
    /\ nOther' = nOther + 1
    /\ cur' = IF pc \in {"post", "resp"}
              THEN [cur EXCEPT !.interleaved = TRUE] ELSE cur
    /\ UNCHANGED configVars /\ UNCHANGED unwiredVars /\ UNCHANGED loopLog
    /\ UNCHANGED <<pc, raised, now, last_send, history>>
    /\ UNCHANGED <<batch, sent, lastSend>>
    /\ UNCHANGED taskVars

Next ==
    \/ RunUnsupported
    \/ RunStart
    \/ LoopNow
    \/ TickHeartbeat
    \/ TickWindow
    \/ TickActivity
    \/ SkipSend
    \/ SendSnapshot
    \/ SendPost
    \/ SendResponse
    \/ Interrupt
    \/ ConcurrentPush

Spec == Init /\ [][Next]_vars

\* ------------------------------------ ActivityTracker.run under signals
\* the signals SignalHandler hooks (SIGBREAK on Windows left out)
Signals == {"SIGINT", "SIGTERM", "SIGHUP"}

\* the member names of ActivityEventType
ActivityEventTypeMembers ==
    {"STARTED", "STOPPED", "SCREEN_LOCKED", "SCREEN_UNLOCKED", "ACTIVE",
     "INACTIVE", "UNSUPPORTED", "SHUTDOWN"}

\* the member _handle_exit asks ActivityEventType for, line 58
ExitMember(signal_name) ==
    IF signal_name # "SIGINT" THEN "SYSTEM_SHUTDOWN" ELSE "USER_INTERRUPT"

\* _handle_exit lines 60-64: every cleanup function is called in list
\* order and what it raises is caught
RunCleanup(h) ==
    [h EXCEPT !.ran = @ \o [k \in 1..Len(h._cleanup_fns) |-> k]]

\* SignalHandler._handle_exit(signum) on handler h and store (q, n):
\* a second signal exits at once; the first one sets the flags and then
\* looks the member up, which raises AttributeError when ActivityEventType
\* has no such member, before anything is logged or cleaned up
HandleExit(h, q, n, signal_name) ==
    IF h.signal_received
    THEN [handler |-> h, events |-> q, nPushed |-> n,
          raises |-> "SystemExit"]
    ELSE LET h1 == [h EXCEPT !.signal_received = TRUE,
                             !.received_signal = Some(signal_name)]
         IN  IF ExitMember(signal_name) \notin ActivityEventTypeMembers
             THEN [handler |-> h1, events |-> q, nPushed |-> n,
                   raises |-> "AttributeError"]
             ELSE [handler |-> RunCleanup(h1),
                   events |-> Push(q, ActivityEvent(
                                 ExitMember(signal_name), now, n + 1)),
                   nPushed |-> n + 1,
                   raises |-> "SystemExit"]

\* the lists of cleanup functions a handler is built with
CleanupLists == {<<"ok">>, <<"raises", "ok">>}

\* SignalHandler(fns) constructed, then ActivityTracker().run()
InitSignal ==
    /\ system \in Platforms
    /\ interval = [heartbeat |-> HEARTBEAT_EVERY,
                   window |-> WINDOW_EVENT_INTERVAL,
                   screenshot |-> SCREENSHOT_INTERVAL]
    /\ handler \in {NewHandler(fns) : fns \in CleanupLists}
    /\ captcha = NoCaptchaTask
    /\ Fresh

\* a hooked signal arrives: Python runs _handle_exit on the main thread and
\* what the handler raises is raised where run is; inside the loop it
\* leaves through `finally`, after the loop it ends the unwinding process
Signal ==
    /\ pc \in LoopPcs \cup {"stopped"}
    /\ handler.delivered < MaxSignals
    /\ \E signal_name \in Signals :
          LET res == HandleExit(handler, events, nPushed, signal_name) IN
          /\ handler' = [res.handler EXCEPT
                           !.delivered = @ + 1,
                           !.during = IF @ = None THEN Some(pc) ELSE @]
          /\ now' = now
          /\ IF pc \in LoopPcs
             THEN Finally(res.events, res.nPushed, res.raises)
             ELSE /\ events' = res.events
                  /\ nPushed' = res.nPushed
                  /\ raised' = Some(res.raises)
                  /\ pc' = pc
    /\ batch' = <<>>
    /\ UNCHANGED configVars /\ UNCHANGED loopLog /\ UNCHANGED captcha
    /\ UNCHANGED <<last_send, nOther, history, cur, sent, lastSend>>
    /\ UNCHANGED taskVars

\* with the handler hooked SIGINT no longer raises KeyboardInterrupt
NextSignal ==
    \/ RunUnsupported
    \/ RunStart
    \/ LoopNow
    \/ TickHeartbeat
    \/ TickWindow
    \/ TickActivity
    \/ SkipSend
    \/ SendSnapshot
    \/ SendPost
    \/ SendResponse
    \/ ConcurrentPush
    \/ Signal

SpecSignal == InitSignal /\ [][NextSignal]_vars

\* --------------------------------------------- ActivityStateTask alone
\* A freshly constructed task and an empty store, ticked directly.
InitActivity == Init

Tick ==
    /\ Len(history) < MaxTicks
    /\ \E t \in {now, now + 1}, locked \in IsLockedResults,
          r1 \in SecondsIdleResults(system),
          r2 \in SecondsIdleResults(system) :
          LET res == ActivityTick(_locked, _idle, events, nPushed, t,
                                  locked, <<r1, r2>>)
          IN  /\ t <= MaxTime
              /\ now' = t
              /\ _locked' = res.locked
              /\ _idle' = res.idle
              /\ events' = res.events
              /\ nPushed' = res.nPushed
              /\ lastTick' = Some(res.record)
              /\ history' = Append(history, [locked |-> locked,
                                             reads |-> res.record.reads])
    /\ UNCHANGED configVars /\ UNCHANGED unwiredVars /\ UNCHANGED loopLog
    /\ UNCHANGED <<pc, raised, nOther, last_send, hb_last, win, shot>>
    /\ UNCHANGED sendVars

NextActivity == Tick

SpecActivity == InitActivity /\ [][NextActivity]_vars

\* ------------------------------------------------ WindowTrackerTask alone
\* A task constructed with any interval of Intervals, ticked directly with
\* any `now`: the clock may stand still and may move backwards.
Intervals == {0, 3, 5}
TaskTimes == {t \in 0..MaxTaskTime : t % 3 = 0}

InitWindow ==
    /\ system \in Platforms
    /\ interval \in [heartbeat : {HEARTBEAT_EVERY}, window : Intervals,
                     screenshot : {SCREENSHOT_INTERVAL}]
    /\ handler = NoHandler
    /\ captcha = NoCaptchaTask
    /\ Fresh

TickWindowTask ==
    /\ Len(history) < MaxTicks
    /\ \E t \in TaskTimes, title \in CurrentTitleResults :
          LET res == WindowTick(win, interval.window, events, nPushed, t,
                                title)
          IN  /\ now' = t
              /\ win' = res.win
              /\ events' = res.events
              /\ nPushed' = res.nPushed
              /\ history' = Append(history,
                                [task |-> "window", now |-> t,
                                 title |-> title, pre |-> win,
                                 q |-> events, n |-> nPushed])
    /\ UNCHANGED configVars /\ UNCHANGED unwiredVars /\ UNCHANGED loopLog
    /\ UNCHANGED <<pc, raised, nOther, last_send>>
    /\ UNCHANGED <<hb_last, shot, _locked, _idle, lastTick>>
    /\ UNCHANGED sendVars

NextWindow == TickWindowTask

SpecWindow == InitWindow /\ [][NextWindow]_vars

\* ------------------------------- HeartbeatTask and ScreenshotTask alone
\* Each task constructed with any interval of Intervals, ticked directly
\* with any `now`.
InitPeriodic ==
    /\ system \in Platforms
    /\ interval \in [heartbeat : Intervals,
                     window : {WINDOW_EVENT_INTERVAL},
                     screenshot : Intervals]
    /\ handler = NoHandler
    /\ captcha = NoCaptchaTask
    /\ Fresh

TickHeartbeatTask ==
    /\ Len(history) < MaxTicks
    /\ \E t \in TaskTimes :
          LET res == HeartbeatTick(interval.heartbeat, hb_last, events,
                                   nPushed, t)
          IN  /\ now' = t
              /\ hb_last' = res._last
              /\ events' = res.events
              /\ nPushed' = res.nPushed
              /\ history' = Append(history,
                                [task |-> "heartbeat", now |-> t,
                                 pre |-> hb_last, q |-> events,
                                 n |-> nPushed])
    /\ UNCHANGED configVars /\ UNCHANGED unwiredVars /\ UNCHANGED loopLog
    /\ UNCHANGED <<pc, raised, nOther, last_send>>
    /\ UNCHANGED <<win, shot, _locked, _idle, lastTick>>
    /\ UNCHANGED sendVars

TickScreenshotTask ==
    /\ Len(history) < MaxTicks
    /\ \E t \in TaskTimes, outcome \in CaptureResults :
          LET res == ScreenshotTick(interval.screenshot, shot, t, outcome)
          IN  /\ now' = t
              /\ shot' = res.shot
              /\ raised' = IF res.raises THEN Some(outcome) ELSE None
              /\ history' = Append(history,
                                [task |-> "screenshot", now |-> t,
                                 pre |-> shot._last, q |-> events,
                                 n |-> shot.captures,
                                 outcome |->
                                    IF res.shot.captures > shot.captures
                                    THEN outcome ELSE "not called"])
    /\ UNCHANGED configVars /\ UNCHANGED unwiredVars /\ UNCHANGED loopLog
    /\ UNCHANGED <<pc, nOther, last_send>>
    /\ UNCHANGED <<hb_last, win, _locked, _idle, lastTick>>
    /\ UNCHANGED storeVars /\ UNCHANGED sendVars

NextPeriodic ==
    \/ TickHeartbeatTask
    \/ TickScreenshotTask

SpecPeriodic == InitPeriodic /\ [][NextPeriodic]_vars

\* ---------------------------------------------------- CaptchaTask alone
\* A CaptchaTask constructed with any interval of CaptchaIntervals and
\* ticked directly with any `now`, its challenge coroutines running on
\* their own threads in between; `history` keeps the last tick only, with
\* its number k.
CaptchaIntervals == {0, 3}
CaptchaTimes == {0, 3, 6}

InitCaptcha ==
    /\ system \in {"linux"}
    /\ interval = [heartbeat |-> HEARTBEAT_EVERY,
                   window |-> WINDOW_EVENT_INTERVAL,
                   screenshot |-> SCREENSHOT_INTERVAL]
    /\ handler = NoHandler
    /\ captcha \in {NewCaptchaTask(every) : every \in CaptchaIntervals}
    /\ Fresh

TickCaptchaTask ==
    /\ IF history = <<>> THEN TRUE ELSE history[1].k < MaxTicks
    /\ \E t \in CaptchaTimes :
          LET res == CaptchaTick(captcha, events, nPushed, t)
          IN  /\ Len(res.captcha.challenges) <= MaxChallenges
              /\ now' = t
              /\ captcha' = res.captcha
              /\ events' = res.events
              /\ nPushed' = res.nPushed
              /\ raised' = IF res.raises THEN Some("AttributeError")
                           ELSE None
              /\ history' = <<[task |-> "captcha", now |-> t,
                               k |-> IF history = <<>> THEN 1
                                     ELSE history[1].k + 1,
                               pre |-> captcha, post |-> res.captcha,
                               q |-> events, after |-> res.events,
                               raises |-> res.raises]>>
    /\ UNCHANGED configVars /\ UNCHANGED handler /\ UNCHANGED loopLog
    /\ UNCHANGED <<pc, nOther, last_send>>
    /\ UNCHANGED taskVars /\ UNCHANGED sendVars

\* a scheduled challenge coroutine starts running
ChallengeBegins ==
    /\ \E k \in 1..Len(captcha.challenges), expr \in Expressions :
          /\ captcha.challenges[k].at = "scheduled"
          /\ captcha' = BeginChallenge(captcha, k, expr)
    /\ UNCHANGED configVars /\ UNCHANGED handler /\ UNCHANGED loopLog
    /\ UNCHANGED <<pc, raised, now, nOther, last_send, history>>
    /\ UNCHANGED storeVars /\ UNCHANGED taskVars /\ UNCHANGED sendVars

\* the dialog of a challenge returns
ChallengeAnswered ==
    /\ \E k \in 1..Len(captcha.challenges), answer \in Answers :
          LET res == AnswerChallenge(captcha, events, nPushed, k, answer)
          IN  /\ captcha.challenges[k].at = "dialog"
              /\ captcha' = res.captcha
              /\ events' = res.events
              /\ nPushed' = res.nPushed
    /\ UNCHANGED configVars /\ UNCHANGED handler /\ UNCHANGED loopLog
    /\ UNCHANGED <<pc, raised, now, nOther, last_send, history>>
    /\ UNCHANGED taskVars /\ UNCHANGED sendVars

NextCaptcha ==
    \/ TickCaptchaTask
    \/ ChallengeBegins
    \/ ChallengeAnswered

SpecCaptcha == InitCaptcha /\ [][NextCaptcha]_vars

\* ======================================================================
\* Properties of the batch sender inside the main loop (checked under Spec)
\* ======================================================================
\* the record of the last completed send attempt
LS == lastSend[1]
Sending == pc \in {"post", "resp"}
IsPrefix(p, q) == Len(p) <= Len(q) /\ SubSeq(q, 1, Len(p)) = p

\* C1 (as stated): no pushed event is ever lost or duplicated, also when it
\* is pushed by another thread during a send: every event pushed so far is
\* still in the queue or was part of a transmitted batch, never both in an
\* acknowledged batch and in the queue, and never twice in the queue.
C1_NoEventLostOrDuplicated ==
    /\ \A u \in 1..nPushed : u \in Uids(events) \/ u \in sent.transmitted
    /\ Uids(events) \cap sent.acked = {}
    /\ Cardinality(Uids(events)) = Len(events)

\* C2: after a send attempt that ended with a non-200 answer or a transport
\* exception, the queue starts with the events queued before the attempt,
\* in their order (and is exactly those when nothing was pushed meanwhile),
\* and the exception does not leave run's loop.
C2_FailedSendKeepsEvents ==
    lastSend # None /\ LS.response # Some(200) =>
        /\ IsPrefix(LS.before, LS.after)
        /\ ~LS.interleaved => LS.after = LS.before
        /\ LS.batch = LS.before
        /\ ~LS.raises
        /\ raised # Some("TransportError")

C2_Witness ==
    /\ lastSend # None /\ LS.response = None /\ ~LS.interleaved
    /\ Len(LS.before) >= 2
    /\ events = LS.before
    /\ pc = "loop"

\* C3: a send acknowledged with 200 and not overlapped by a push leaves the
\* queue empty and transmitted exactly the queue contents; every event
\* pushed after the last acknowledged send and before the next snapshot is
\* in the next batch; no acknowledged event is in a later batch or in the
\* queue.
C3_DrainExhaustiveExclusive ==
    /\ lastSend # None /\ LS.response = Some(200) /\ ~LS.interleaved =>
          LS.after = <<>> /\ LS.batch = LS.before
    /\ Sending =>
          /\ \A u \in (sent.ackMark + 1)..cur.snapMark : u \in Uids(batch)
          /\ Uids(batch) \cap sent.acked = {}
    /\ ~Sending => Uids(events) \cap sent.acked = {}

C3_Witness ==
    /\ lastSend # None /\ LS.response = Some(200) /\ ~LS.interleaved
    /\ Len(LS.batch) >= 2
    /\ pc = "resp"
    /\ batch # <<>>
    /\ sent.ackMark < cur.snapMark

\* ======================================================================
\* Properties of ActivityStateTask.tick (checked under SpecActivity)
\* ======================================================================
\* the record of the last tick
LT == lastTick[1]
Ticked == lastTick # None
\* the claims' own reading of "idle_seconds >= IDLE_THRESHOLD"
AtThreshold(r) == r[1] >= 10
\* every seconds_idle call of the last tick returned a number
NumericReads == \A k \in 1..Len(LT.reads) : LT.reads[k] # None
\* the last tick saw a locked -> unlocked edge
UnlockEdge == Ticked /\ LT.pre_locked = Some(TRUE) /\ ~LT.locked
\* the labels of the queued events, in queue order
Labels == [k \in 1..Len(events) |-> events[k].event]

ConstantSample ==
    /\ \A k \in 1..Len(history) : history[k].locked = history[1].locked
    /\ \A k \in 1..Len(history) : \A j \in 1..Len(history[k].reads) :
          /\ history[k].reads[j] # None
          /\ \A m \in 1..Len(history[1].reads) :
                /\ history[1].reads[m] # None
                /\ AtThreshold(history[k].reads[j])
                     = AtThreshold(history[1].reads[m])

\* C5: while the (locked, is_idle) sample never changes, every tick after
\* the first pushes no event and leaves (_locked, _idle) unchanged, so the
\* queue holds only what the first tick pushed.
C5_IdempotentState ==
    Len(history) >= 2 /\ ConstantSample =>
        /\ LT.pushed = <<>>
        /\ <<_locked, _idle>> = <<LT.pre_locked, LT.pre_idle>>
        /\ Len(events) = 1

C5_Witness ==
    /\ Len(history) = 3
    /\ ConstantSample
    /\ ~history[1].locked
    /\ Labels = <<INACTIVE>>

\* the four ticks of the scenario of section 8 (idle threshold 10 s)
Scenario ==
    << [locked |-> FALSE, reads |-> <<Some(0), Some(0)>>],
       [locked |-> TRUE,  reads |-> <<>>],
       [locked |-> FALSE, reads |-> <<Some(15)>>],
       [locked |-> FALSE, reads |-> <<Some(15)>>] >>

\* C6: the scenario leaves exactly the labels Active, ScreenLocked,
\* ScreenUnlocked, Active, Inactive in the queue, in that order.
C6_Scenario ==
    history = Scenario =>
        Labels = <<ACTIVE, SCREEN_LOCKED, SCREEN_UNLOCKED, ACTIVE, INACTIVE>>

C6_Witness == history = Scenario /\ Len(events) = 5

\* C7 (as stated): the first tick pushes exactly one event: ScreenLocked
\* when the lock sample is locked, otherwise Inactive or Active according
\* to idle_seconds >= IDLE_THRESHOLD, and the state becomes (true, false)
\* resp. (false, is_idle).
C7_FirstTickOneEvent ==
    Ticked /\ LT.pre_locked = None /\ NumericReads =>
        IF LT.locked
        THEN /\ LT.pushed = <<SCREEN_LOCKED>>
             /\ <<_locked, _idle>> = <<Some(TRUE), Some(FALSE)>>
        ELSE /\ LT.pushed = <<IF AtThreshold(LT.reads[1])
                              THEN INACTIVE ELSE ACTIVE>>
             /\ <<_locked, _idle>> =
                   <<Some(FALSE), Some(AtThreshold(LT.reads[1]))>>

\* C8: a tick with stored state unlocked and lock sample locked pushes
\* exactly ScreenLocked, reads no idle sample, and sets (true, false).
C8_LockEdge ==
    Ticked /\ LT.pre_locked = Some(FALSE) /\ LT.locked =>
        /\ LT.pushed = <<SCREEN_LOCKED>>
        /\ LT.reads = <<>>
        /\ ~LT.raised
        /\ <<_locked, _idle>> = <<Some(TRUE), Some(FALSE)>>
        /\ LT.ret = <<_locked, _idle>>

C8_Witness ==
    /\ Ticked /\ LT.pre_locked = Some(FALSE) /\ LT.pre_idle = Some(TRUE)
    /\ LT.locked
    /\ _idle = Some(FALSE)

C10_IdleEdge ==
    /\ Ticked /\ LT.pre_locked = Some(FALSE) /\ ~LT.locked /\ NumericReads =>
          LET is_idle == AtThreshold(LT.reads[1]) IN
          /\ Len(LT.reads) = 1
          /\ IF ~LT.pre_idle[1] /\ is_idle
             THEN LT.pushed = <<INACTIVE>> /\ _idle = Some(TRUE)
             ELSE IF LT.pre_idle[1] /\ ~is_idle
             THEN LT.pushed = <<ACTIVE>> /\ _idle = Some(FALSE)
             ELSE LT.pushed = <<>> /\ _idle = LT.pre_idle
          /\ _locked = Some(FALSE)
    /\ Ticked /\ LT.locked =>
          /\ LT.reads = <<>>
          /\ \A k \in 1..Len(LT.pushed) : LT.pushed[k] \notin {ACTIVE, INACTIVE}

C10_Witness ==
    /\ Ticked /\ LT.pre_locked = Some(FALSE) /\ ~LT.locked
    /\ LT.pre_idle = Some(FALSE)
    /\ LT.reads = <<Some(10)>>
    /\ LT.pushed = <<INACTIVE>>

\* the ScreenLocked / ScreenUnlocked labels of the queue, in order
RECURSIVE LockLabels(_)
LockLabels(ls) ==
    IF ls = <<>> THEN <<>>
    ELSE IF Head(ls) \in {SCREEN_LOCKED, SCREEN_UNLOCKED}
         THEN <<Head(ls)>> \o LockLabels(Tail(ls))
         ELSE LockLabels(Tail(ls))

\* C11: over any sequence of samples no two consecutive labels pushed by
\* the state machine are equal, and ScreenLocked and ScreenUnlocked strictly
\* alternate, starting with ScreenLocked.
C11_OnlyTransitions ==
    /\ \A k \in 1..(Len(Labels) - 1) : Labels[k] # Labels[k + 1]
    /\ LET ll == LockLabels(Labels) IN
       \A k \in 1..Len(ll) :
          ll[k] = IF k % 2 = 1 THEN SCREEN_LOCKED ELSE SCREEN_UNLOCKED

C11_Witness ==
    /\ LockLabels(Labels) = <<SCREEN_LOCKED, SCREEN_UNLOCKED, SCREEN_LOCKED>>
    /\ Len(Labels) >= 5

\* C12 (as stated): after the first tick both _locked and _idle are
\* booleans, in every reachable state.
C12_StateSetAfterFirstTick ==
    /\ history = <<>> => _locked = None /\ _idle = None
    /\ history # <<>> => _locked \in {Some(TRUE), Some(FALSE)}
                         /\ _idle \in {Some(TRUE), Some(FALSE)}

\* ======================================================================
\* Properties of ActivityTracker.run (checked under Spec)
\* ======================================================================
IsLabel(e, label) == e.kind = "activity" /\ e.event = label
\* the supported platforms as the specification lists them
ListedSystems == {"windows", "darwin", "linux"}
\* no task has been ticked yet
NoTaskTicked == hb_last = None /\ win._last_title = None /\ _locked = None

C15_AtLeastOnce ==
    /\ \A e \in sent.lost : e.kind = "captcha"
    /\ \A u \in 1..sent.ackSnap :
          u \in sent.acked \/ u \in {e.uid : e \in sent.lost}
    /\ (lastSend # None /\ LS.response = Some(200)) =>
          sent.failed \subseteq sent.acked
    /\ (Sending /\ lastSend # None /\ LS.response # Some(200)) =>
          IsPrefix(LS.batch, batch)

C15_Witness ==
    /\ lastSend # None /\ LS.response = Some(200)
    /\ \E u \in sent.failed : u > 1 /\ u \in Uids(LS.batch)
    /\ pc = "loop"

\* ======================================================================
\* Properties of WindowTrackerTask alone (checked under SpecWindow)
\* ======================================================================
\* the last direct tick of a task
H == history[Len(history)]
WindowTicked == history # <<>> /\ H.task = "window"
\* the last tick saw a title other than the stored one
TitleChanged == Some(H.title) # H.pre._last_title
\* the title tracked before the last tick was held for the interval
HeldLongEnough ==
    /\ H.pre._last_title # None
    /\ H.now - H.pre._window_start[1] >= interval.window
WindowEvents == {k \in 1..Len(events) : events[k].kind = "window"}

\* C16: a tick that sees a title change pushes a WindowEvent for the
\* previous title iff a previous title was tracked and now - window_start
\* >= interval; the event has window_title = last_title, start_time =
\* window_start, end_time = now, duration = now - window_start, and it is
\* the only event of the tick; any other tick pushes nothing.
C16_DwellThreshold ==
    WindowTicked =>
        IF TitleChanged /\ HeldLongEnough
        THEN /\ nPushed = H.n + 1
             /\ events = Append(H.q,
                   [kind |-> "window", uid |-> H.n + 1,
                    window_title |-> H.pre._last_title[1],
                    timestamp |-> H.pre._window_start[1],
                    start_time |-> H.pre._window_start[1],
                    end_time |-> H.now,
                    duration |-> H.now - H.pre._window_start[1]])
        ELSE nPushed = H.n /\ events = H.q

\* interval 5: a title held 3 s is dropped, a title held 6 s gives one
\* event of duration 6
C16_Witness ==
    /\ WindowTicked /\ interval.window = 5 /\ Len(history) = 3
    /\ history[2].now - history[1].now = 3
    /\ history[2].title # history[1].title
    /\ history[3].title # history[2].title
    /\ H.now - history[2].now = 6
    /\ history[3].q = <<>>
    /\ Len(events) = 1 /\ events[1].duration = 6
    /\ events[1].window_title = history[2].title

\* the index of the last tick before tick j that saw a title change
GainedFocus(j) ==
    CHOOSE i \in 1..(j - 1) :
        /\ Some(history[i].title) # history[i].pre._last_title
        /\ \A m \in (i + 1)..(j - 1) :
              Some(history[m].title) = history[m].pre._last_title

\* C17: every title change sets last_title to the new title and
\* window_start to now, whether or not an event was pushed, and no other
\* tick touches them; so every WindowEvent is measured from the tick at
\* which its title last gained focus (A, B, A: the second A from its
\* return, not merged with the first).
C17_RestartOnChange ==
    /\ WindowTicked =>
          win = IF TitleChanged
                THEN [_last_title |-> Some(H.title),
                      _window_start |-> Some(H.now)]
                ELSE H.pre
    /\ \A j \in 1..Len(history) :
          (history[j].task = "window" /\ Len(history[j].q) < Len(events)
           /\ (j = Len(history) \/ Len(history[j + 1].q) > Len(history[j].q)))
          => LET e == events[Len(history[j].q) + 1] IN
             /\ e.start_time = history[GainedFocus(j)].now
             /\ e.window_title = history[GainedFocus(j)].title
             /\ e.end_time = history[j].now

C17_Witness ==
    /\ WindowTicked /\ Len(history) = 4
    /\ history[1].title = history[3].title
    /\ history[2].title # history[1].title
    /\ history[4].title = history[2].title
    /\ history[3].n = history[4].n
    /\ history[3].now # history[1].now
    /\ nPushed = H.n + 1
    /\ events[Len(events)].window_title = history[1].title
    /\ events[Len(events)].start_time = history[3].now

\* C18: every WindowEvent in the queue has duration = end_time -
\* start_time, duration >= 0 and start_time <= end_time, for any sequence
\* of `now` values (a clock that moves backwards included) and any
\* interval >= 0.
C18_WindowEventWellFormed ==
    \A k \in WindowEvents :
        /\ events[k].duration = events[k].end_time - events[k].start_time
        /\ events[k].duration >= 0
        /\ events[k].start_time <= events[k].end_time

\* an event pushed by a tick that came after a step back of the clock
C18_Witness ==
    /\ WindowTicked /\ nPushed = H.n + 1
    /\ \E j \in 1..(Len(history) - 1) : history[j + 1].now < history[j].now
    /\ H.now < history[Len(history) - 1].now

\* ======================================================================
\* Properties of HeartbeatTask and ScreenshotTask alone (checked under
\* SpecPeriodic)
\* ======================================================================
PeriodicTicked == history # <<>> /\ H.task \in {"heartbeat", "screenshot"}
HeartbeatTicked == history # <<>> /\ H.task = "heartbeat"
\* the last tick performed the action of its task
Fired ==
    IF H.task = "heartbeat" THEN nPushed = H.n + 1
    ELSE shot.captures = H.n + 1
\* the last tick did nothing at all
Skipped ==
    IF H.task = "heartbeat"
    THEN nPushed = H.n /\ events = H.q /\ hb_last = H.pre
    ELSE shot = [_last |-> H.pre, captures |-> H.n]

\* C19: HeartbeatTask.tick(now) fires iff _last is None or now - _last >=
\* interval; a firing tick pushes exactly one HeartbeatEvent with timestamp
\* = now and sets _last = now, any other tick pushes nothing and leaves
\* _last alone; the first tick always fires.
C19_HeartbeatGate ==
    HeartbeatTicked =>
        IF H.pre = None \/ H.now - H.pre[1] >= interval.heartbeat
        THEN /\ nPushed = H.n + 1
             /\ events = Append(H.q, [kind |-> "heartbeat",
                                      timestamp |-> H.now,
                                      uid |-> H.n + 1])
             /\ hb_last = Some(H.now)
        ELSE nPushed = H.n /\ events = H.q /\ hb_last = H.pre

\* a tick exactly `interval` after the last firing fires, one before it
\* did not
C19_Witness ==
    /\ HeartbeatTicked /\ Len(history) = 3
    /\ \A j \in 1..3 : history[j].task = "heartbeat"
    /\ interval.heartbeat = 3
    /\ history[2].now = history[1].now
    /\ history[3].now = history[1].now + 3
    /\ nPushed = 2 /\ hb_last = Some(H.now)

NoClearYet == sent.ackMark = 0
Kinds(q) == {q[k].kind : k \in 1..Len(q)}

\* C21: push appends at the tail and the snapshot is read-only: with no
\* clear so far the queue holds every pushed event, of whatever kind, in
\* push order; get_all_events returns exactly that sequence and leaves the
\* queue as it was.
C21_AppendAndSnapshot ==
    /\ \A k \in 1..(Len(events) - 1) : events[k].uid < events[k + 1].uid
    /\ NoClearYet => \A k \in 1..Len(events) : events[k].uid = k
    /\ Sending => batch = cur.before /\ IsPrefix(cur.before, events)
    /\ (pc = "post" /\ ~cur.interleaved) => events = cur.before

C21_Witness ==
    /\ pc = "post" /\ NoClearYet /\ ~cur.interleaved
    /\ Len(batch) = nPushed /\ nPushed >= 4
    /\ Kinds(batch) = {"activity", "heartbeat", "captcha"}

\* C22: pushes of the main thread and of the other thread, in any
\* interleaving and with no clear, leave exactly the pushed events in the
\* queue, each once.
C22_NoLostPush ==
    NoClearYet =>
        /\ Len(events) = nPushed
        /\ Cardinality(Uids(events)) = nPushed
        /\ Uids(events) = 1..nPushed
        /\ Cardinality({k \in 1..Len(events) :
                           events[k].kind = "captcha"}) = nOther

\* the other thread pushed between two pushes of the main thread
C22_Witness ==
    /\ NoClearYet /\ nOther >= 1 /\ Len(events) >= 4
    /\ \E k \in 2..(Len(events) - 1) :
          /\ events[k].kind = "captcha"
          /\ events[k - 1].kind = "heartbeat"
          /\ events[k + 1].kind = "activity"

\* C23: with an empty queue send_events returns without a network request
\* and without changing the queue: a request only ever carries a
\* non-empty batch.
C23_EmptySendIsNoOp ==
    /\ [](Sending => batch # <<>>)
    /\ [][(/\ pc = "send" /\ events = <<>>
           /\ now - last_send >= SEND_INTERVAL
           /\ pc' \notin {"send", "stopped"})
          => /\ pc' = "loop"
             /\ events' = <<>> /\ nPushed' = nPushed
             /\ sent' = sent /\ lastSend' = lastSend
             /\ loopLog'.empty = loopLog.empty + 1]_vars

C23_Witness ==
    /\ pc = "loop" /\ loopLog.empty >= 1 /\ events = <<>>
    /\ last_send = now /\ lastSend # None /\ LS.response = Some(200)

\* the sampled times of the send_events calls so far
Attempts == loopLog.attempts

\* C24: run calls send_events in an iteration iff now - last_send >=
\* SEND_INTERVAL; the first call is no earlier than SEND_INTERVAL after the
\* start; last_send is the time of the last call whether it succeeded or
\* failed, so two consecutive calls are at least SEND_INTERVAL apart.
C24_SendCadence ==
    /\ [](\A k \in 1..Len(Attempts) :
             Attempts[k] >= SEND_INTERVAL
                            + (IF k = 1 THEN 0 ELSE Attempts[k - 1]))
    /\ [](Sending => /\ now - last_send >= SEND_INTERVAL
                     /\ Attempts[Len(Attempts)] = now)
    /\ []((pc \in LoopPcs \ {"post", "resp"}) =>
             last_send = IF Attempts = <<>> THEN 0
                         ELSE Attempts[Len(Attempts)])
    /\ [][(pc = "send" /\ pc' \in {"loop", "post"})
          => ((now - last_send >= SEND_INTERVAL)
              <=> Len(Attempts') = Len(Attempts) + 1)]_vars

\* a failed attempt, and the next attempt one cadence later
C24_Witness ==
    /\ pc = "loop" /\ Len(Attempts) = 2
    /\ Attempts[2] - Attempts[1] = SEND_INTERVAL
    /\ sent.failed # {} /\ last_send = Attempts[2]

\* the place of a task's events in one iteration
Rank(e) ==
    IF e.kind = "heartbeat" THEN 1 ELSE IF e.kind = "window" THEN 2 ELSE 3
\* the events the tasks pushed in the current iteration
ThisIteration ==
    {k \in 1..Len(events) : /\ events[k].uid > loopLog.mark
                            /\ events[k].kind # "captcha"
                            /\ ~IsLabel(events[k], STOPPED)}
FullRound ==
    <<[task |-> "hb", now |-> now], [task |-> "win", now |-> now],
      [task |-> "act", now |-> now]>>

\* C25: each iteration samples `now` once and ticks HeartbeatTask,
\* WindowTrackerTask, ActivityStateTask in this order with that value, and
\* only then possibly sends; the events of one iteration are queued in the
\* order heartbeat, window, activity.
C25_FixedTickOrder ==
    /\ pc \in {"hb", "win", "act"} =>
          /\ IsPrefix(loopLog.ticked, FullRound)
          /\ Len(loopLog.ticked) < 3
          /\ FullRound[Len(loopLog.ticked) + 1].task = pc
    /\ pc \in {"send", "post", "resp"} => loopLog.ticked = FullRound
    /\ pc \in LoopPcs \ {"loop"} =>
          \A k, l \in ThisIteration :
             k < l => Rank(events[k]) <= Rank(events[l])

C25_Witness ==
    /\ pc = "send"
    /\ {events[k].kind : k \in ThisIteration}
          = {"heartbeat", "window", "activity"}

\* ======================================================================
\* More properties of ActivityStateTask alone (checked under SpecActivity)
\* ======================================================================
Negative(r) == r # None /\ r[1] < 0
\* the last tick called seconds_idle and every call returned a negative value
NegativeReads ==
    /\ LT.reads # <<>>
    /\ \A k \in 1..Len(LT.reads) : Negative(LT.reads[k])

ScreenshotTicked == history # <<>> /\ H.task = "screenshot"

\* C27 (as stated): a failing capture is not fatal to the loop. run has no
\* handler around t.tick(now), only `finally`, so this needs that the
\* failure of the capture does not leave ScreenshotTask.tick.
C27_CaptureFailureNotFatal ==
    (ScreenshotTicked /\ shot.captures = H.n + 1
     /\ H.outcome = "RuntimeError") => raised = None

\* C29 (as stated): a ScreenshotTask built with interval 0 never calls
\* capture_all_monitors.
C29_ZeroDisablesScreenshots ==
    interval.screenshot = 0 => shot.captures = 0

\* ======================================================================
\* Properties of run with a SignalHandler installed (checked under
\* SpecSignal)
\* ======================================================================
\* the first signal arrived while the loop was running
SignalledInLoop == handler.during # None /\ handler.during[1] \in LoopPcs
ExitLabels == {"SYSTEM_SHUTDOWN", "USER_INTERRUPT"}

\* C28 (as stated): a shutdown signal delivered while the loop runs ends
\* the loop, and the handler's shutdown or interrupt ActivityEvent followed
\* by the loop's Stopped event are the last two events of the queue.
C28_SignalShutdownLogged ==
    SignalledInLoop =>
        /\ pc = "stopped"
        /\ Len(events) >= 2
        /\ IsLabel(events[Len(events)], STOPPED)
        /\ events[Len(events) - 1].kind = "activity"
        /\ events[Len(events) - 1].event \in ExitLabels

\* C30 (as stated): the first signal calls every registered cleanup
\* function exactly once, in registration order, also past one that raises;
\* a further signal calls none and pushes nothing.
C30_CleanupRunsOnce ==
    handler.delivered >= 1 =>
        handler.ran = [k \in 1..Len(handler._cleanup_fns) |-> k]

\* the ticks of the history that pushed an event
Pushing == {j \in 1..Len(history) :
               IF j = Len(history) THEN nPushed > history[j].n
               ELSE history[j + 1].n > history[j].n}

\* C31: a tick that sees the title already stored pushes no event and
\* leaves last_title and window_start as they were, however long the
\* window has been focused; a WindowEvent is pushed only by a tick that
\* observes a title change.
C31_SameTitleNoEffect ==
    /\ (WindowTicked /\ ~TitleChanged) =>
          /\ events = H.q
          /\ nPushed = H.n
          /\ win._last_title = H.pre._last_title
          /\ win._window_start = H.pre._window_start
    /\ \A j \in Pushing :
          Some(history[j].title) # history[j].pre._last_title

\* the same title seen again 9 s after it gained focus, interval 3: no
\* event, the start kept
C31_Witness ==
    /\ WindowTicked /\ ~TitleChanged /\ interval.window = 3
    /\ H.pre._window_start = Some(0) /\ H.now = 9
    /\ events = <<>> /\ win._window_start = Some(0)

\* ======================================================================
\* Properties of the window tracker inside run (checked under Spec)
\* ======================================================================
\* C39: the window focused when the loop exits never gets a WindowEvent:
\* at every point of run, and so at its exit, the number of WindowEvents
\* pushed is at most the number of title changes seen minus one (none when
\* no change was seen), the first tick of the window tracker pushes none,
\* and the exit itself pushes only Stopped, leaving the focused title
\* tracked.
C39_LastWindowNeverLogged ==
    /\ loopLog.windows <= IF loopLog.changes = 0 THEN 0
                          ELSE loopLog.changes - 1
    /\ loopLog.changes <= 1 => loopLog.windows = 0
    /\ (pc = "stopped" /\ loopLog.changes >= 1) =>
          /\ win._last_title # None
          /\ IsLabel(events[Len(events)], STOPPED)

\* the loop exits after two title changes: one WindowEvent, the second
\* title still tracked
C39_Witness ==
    /\ pc = "stopped"
    /\ loopLog.changes = 2 /\ loopLog.windows = 1
    /\ win._last_title # None

\* ======================================================================
\* More properties of ActivityStateTask alone (checked under SpecActivity)
\* ======================================================================
LastLabel == Labels[Len(Labels)]

\* C33: after every tick the last label pushed identifies the stored
\* state: it is ScreenLocked iff the state is locked, Active iff the state
\* is unlocked and not idle, Inactive iff the state is unlocked and idle;
\* ScreenUnlocked is never the last label at the end of a tick, and while
\* nothing has been pushed no state is stored.
C33_LastLabelIsState ==
    IF Labels = <<>>
    THEN _locked = None /\ _idle = None
    ELSE /\ LastLabel = SCREEN_LOCKED <=> _locked = Some(TRUE)
         /\ LastLabel = ACTIVE <=>
               (_locked = Some(FALSE) /\ _idle = Some(FALSE))
         /\ LastLabel = INACTIVE <=>
               (_locked = Some(FALSE) /\ _idle = Some(TRUE))
         /\ LastLabel # SCREEN_UNLOCKED

\* an unlock tick with an idle sample over the threshold: ScreenUnlocked,
\* Active, Inactive pushed, the state left unlocked and idle
C33_Witness ==
    /\ UnlockEdge /\ Len(LT.pushed) = 3
    /\ LastLabel = INACTIVE
    /\ _locked = Some(FALSE) /\ _idle = Some(TRUE)

\* C34 (as stated): in every reachable state locked = true implies idle =
\* false, and after each tick the stored locked value equals the lock
\* sample of that tick.
C34_LockedNeverIdle ==
    /\ _locked = Some(TRUE) => _idle = Some(FALSE)
    /\ ~(_locked = Some(TRUE) /\ _idle = Some(TRUE))
    /\ Ticked => _locked = Some(LT.locked)

\* ======================================================================
\* More properties of HeartbeatTask alone (checked under SpecPeriodic)
\* ======================================================================
\* C35: for any sequence of tick times, a clock that moves backwards
\* included, and any interval >= 0, the timestamps of two consecutively
\* pushed HeartbeatEvents differ by at least interval (the later one is
\* never the earlier), and a tick pushes at most one HeartbeatEvent.
C35_HeartbeatSpacing ==
    /\ \A k \in 1..(Len(events) - 1) :
          /\ events[k].kind = "heartbeat" /\ events[k + 1].kind = "heartbeat"
          /\ events[k + 1].timestamp - events[k].timestamp
                >= interval.heartbeat
    /\ \A j \in 1..Len(history) :
          LET after == IF j = Len(history) THEN events
                       ELSE history[j + 1].q
          IN  Len(after) <= Len(history[j].q) + 1

\* interval 3: a heartbeat at 6, the clock back at 0 (nothing pushed), the
\* next heartbeat at 9
C35_Witness ==
    /\ HeartbeatTicked /\ interval.heartbeat = 3 /\ Len(history) = 3
    /\ \A j \in 1..3 : history[j].task = "heartbeat"
    /\ history[1].now = 6 /\ history[2].now = 0 /\ history[3].now = 9
    /\ Len(events) = 2
    /\ events[1].timestamp = 6 /\ events[2].timestamp = 9

\* ======================================================================
\* Properties of the exit of run and of retries (checked under Spec)
\* ======================================================================
\* the events pushed after the last acknowledged send cleared the store
SinceLastAck == (sent.ackMark + 1)..nPushed
\* the events pushed after the snapshot of the last send attempt
SinceLastAttempt == (cur.snapMark + 1)..nPushed
StoppedIsLast ==
    /\ events # <<>>
    /\ IsLabel(events[Len(events)], STOPPED)
    /\ events[Len(events)].uid = nPushed

\* C36 (as stated): no send is attempted after the loop has exited: the
\* Stopped event, and every event pushed after the last successful send,
\* stay in the queue and are never part of any transmitted batch.
C36_UnsentNeverTransmitted ==
    pc = "stopped" =>
        /\ StoppedIsLast
        /\ nPushed \notin sent.transmitted
        /\ sent.acked # {} =>
              \A u \in SinceLastAck :
                 u \in Uids(events) /\ u \notin sent.transmitted

\* C36 (amended): no send is attempted after the loop has exited: the
\* Stopped event, and every event pushed after the last successful send,
\* stay in the queue; Stopped, and every event pushed after the last send
\* attempt (successful or not) took its snapshot, are never part of any
\* transmitted batch.
C36_UnsentStayQueued ==
    /\ [](pc = "stopped" =>
             /\ StoppedIsLast
             /\ batch = <<>>
             /\ nPushed \notin sent.transmitted
             /\ \A u \in SinceLastAck : u \in Uids(events)
             /\ \A u \in SinceLastAttempt : u \notin sent.transmitted)
    /\ [][pc = "stopped" =>
             /\ sent' = sent
             /\ loopLog'.attempts = loopLog.attempts]_vars

\* the loop exits after a 200 and a later failed attempt: the events of
\* the failed batch are in the queue and were transmitted, Stopped was not
C36_Witness ==
    /\ pc = "stopped" /\ sent.acked # {}
    /\ \E u \in SinceLastAck :
          u \in sent.failed /\ u \in sent.transmitted
    /\ cur.snapMark < nPushed - 1

\* the last uid of a non-empty batch
LastUid(b) == b[Len(b)].uid

\* C37: batches preserve queue order across retries: every transmitted
\* batch lists its events in push order, and the batch sent after a failed
\* attempt is the failed batch (same events, same order) followed by
\* exactly the events pushed since the failed attempt took its snapshot.
C37_RetryKeepsOrder ==
    Sending =>
        /\ \A k \in 1..(Len(batch) - 1) : batch[k].uid < batch[k + 1].uid
        /\ (lastSend # None /\ LS.response # Some(200)) =>
              /\ Len(LS.batch) <= Len(batch)
              /\ \A k \in 1..Len(LS.batch) : batch[k] = LS.batch[k]
              /\ {batch[k].uid : k \in (Len(LS.batch) + 1)..Len(batch)}
                    = (LastUid(LS.batch) + 1)..cur.snapMark

\* a batch of two events failed; the retry carries them first and then
\* the events pushed since
C37_Witness ==
    /\ pc = "resp" /\ lastSend # None /\ LS.response # Some(200)
    /\ Len(LS.batch) >= 2
    /\ Len(batch) >= Len(LS.batch) + 2

\* ======================================================================
\* The startup check against the probes (checked under Spec)
\* ======================================================================
\* run entered its loop
LoopStarted == pc \in LoopPcs \cup {"stopped"}
\* the platforms on which every probe has an implementation
ProbedSystems ==
    SecondsIdleSystems \cap IsLockedSystems \cap CurrentTitleSystems

\* C38 (as stated): the platforms accepted by run's startup check are
\* exactly those for which the three probes dispatch to a platform
\* implementation: whenever the loop starts no probe takes its
\* unsupported-platform fallback, and every platform the probes support
\* lets the loop start (run never returns at once on it).
C38_CheckMatchesProbes ==
    /\ LoopStarted =>
          /\ system \in SecondsIdleSystems
          /\ system \in IsLockedSystems
          /\ system \in CurrentTitleSystems
    /\ system \in ProbedSystems => pc # "returned"

\* ======================================================================
\* Properties of CaptchaTask alone (checked under SpecCaptcha)
\* ======================================================================
CaptchaTicked == history # <<>> /\ H.task = "captcha"
\* the interval had elapsed at the last tick
ChallengeDue ==
    \/ H.pre._last_challenge = None
    \/ H.now - H.pre._last_challenge[1] >= H.pre.interval
\* a challenge had been issued and not answered before the last tick
Unanswered == H.pre._last_expr # None /\ ~H.pre._last_answered

\* C32 (as stated): a tick at which the interval has elapsed while the
\* last challenge is unanswered pushes a not-answered event for the
\* previous expression, sets _last_challenge = now and leaves a next
\* challenge started; a tick before the interval has elapsed does nothing.
C32_UnansweredLoggedInTick ==
    CaptchaTicked =>
        IF ChallengeDue
        THEN Unanswered =>
                /\ ~H.raises
                /\ Len(H.after) = Len(H.q) + 1
                /\ H.after[Len(H.after)].kind = "captcha"
                /\ H.after[Len(H.after)].expression = H.pre._last_expr[1]
                /\ H.post._last_challenge = Some(H.now)
                /\ Len(H.post.challenges) > Len(H.pre.challenges)
        ELSE H.post = H.pre /\ H.after = H.q /\ ~H.raises

====
